---- MODULE Spec2Model ----
(***************************************************************************)
(* Memory bus (src/src/memory.ts) and register file (SharpLR35902) of the  *)
(* coffee-boy emulator.                                                    *)
(*                                                                         *)
(* The bus storage is a sparse overlay `store` over the initial content of *)
(* the buffers: a cell that was never written holds the byte it had after  *)
(* construction (the cartridge byte for the rom buffer, 0 for every        *)
(* `new Uint8Array(n)`).                                                    *)
(***************************************************************************)
EXTENDS Integers, Sequences, FiniteSets, TLC

VARIABLES rom, store, last, nops, regs, lastReg

vars == <<rom, store, last, nops, regs, lastReg>>

(***************************************************************************)
(* Bounds of the model.                                                    *)
(***************************************************************************)
\* number of bus operations in one behaviour
MaxOps == 2
\* number of byte values written by writeUint8
NumBytes == 1
\* number of 16-bit values written by writeUint16LE
NumWords == 1
\* cartridge images 0..MaxRomSeed
MaxRomSeed == 1
\* number of 16-bit values assigned to a register pair
NumRegWords == 2
\* number of 8-bit values assigned to the accumulator
NumRegBytes == 2
\* number of 8-bit values assigned to a half of a register pair
NumHalfBytes == 1

ByteList == <<255, 0, 90, 165, 1, 128>>
WordList == <<48879, 43775, 255, 4608, 65535, 0>>
RegWordList == <<48879, 255, 4608, 65535, 4660, 0, 32896>>
RegByteList == <<255, 90, 1, 128, 18>>
HalfByteList == <<52, 255, 15, 0>>

Take(list, n) == {list[i] : i \in 1..(IF n < Len(list) THEN n ELSE Len(list))}

ByteSamples == Take(ByteList, NumBytes)
WordSamples == Take(WordList, NumWords)
RegWordSamples == Take(RegWordList, NumRegWords)
RegByteSamples == Take(RegByteList, NumRegBytes)
HalfByteSamples == Take(HalfByteList, NumHalfBytes)

\* every branch of map, and both sides of every region boundary a 16-bit
\* access can straddle
AddrSamples ==
  { -1, 0, 16383, 32766, 32767,            \* rom: 0x0000 0x3FFF 0x7FFE 0x7FFF
    32768, 36863, 36864, 38912, 39936,     \* 0x8000 0x8FFF 0x9000 0x9800 0x9C00
    40960, 49152, 53247, 56831, 57343,     \* 0xA000 0xC000 0xCFFF 0xDDFF 0xDFFF
    57344, 61439, 65023,                   \* echo: 0xE000 0xEFFF 0xFDFF
    65024, 65183,                          \* oam: 0xFE00 0xFE9F
    65184, 65280, 65408, 65535, 65536 }    \* 0xFEA0 0xFF00 0xFF80 0xFFFF 0x10000

(***************************************************************************)
(* rom.ts: the cartridge image handed to the bus.                          *)
(***************************************************************************)
\* rom.data[index] of cartridge image `seed`; image 0 is all zero
romData(seed, index) == (seed * (index * 7 + 1)) % 256

(***************************************************************************)
(* memory.ts                                                               *)
(***************************************************************************)
WORK_RAM_BANK_SIZE == 4096
EXTERNAL_RAM_BANK_SIZE == 8192

ReadOnly == "ReadOnly"
Writable == "Writable"

\* The DataView objects of a Memory: the buffer each one views, where it
\* starts in that buffer and how long it is.
View(buffer, byteOffset, byteLength) ==
  [buffer |-> buffer, byteOffset |-> byteOffset, byteLength |-> byteLength]

romBank0 == View("rom", 0, 16384)
romBank1 == View("rom", 16384, 32768 - 16384)
memBank0 == View("memBank0", 0, WORK_RAM_BANK_SIZE)
memBank1 == View("memBank1", 0, WORK_RAM_BANK_SIZE)
tiles0 == View("tiles0", 0, 36864 - 32768)
tiles1 == View("tiles1", 0, 38912 - 36864)
tileMap0 == View("tileMap0", 0, 39936 - 38912)
tileMap1 == View("tileMap1", 0, 40960 - 39936)
externalRam == View("externalRam", 0, EXTERNAL_RAM_BANK_SIZE)
spriteAttributeTable == View("spriteAttributeTable", 0, 65184 - 65024)

workRom0 == romBank0
workRom1 == romBank1
workRam0 == memBank0
workRam1 == memBank1

\* content of a buffer cell right after construction
initialByte(cell) ==
  IF cell[1] = "rom" THEN romData(rom, cell[2]) ELSE 0

cellOf(view, offset) == <<view.buffer, view.byteOffset + offset>>

\* DataView.getUint8 / setUint8 / getUint16(.., true) / setUint16(.., true)
load(mem, cell) == IF cell \in DOMAIN mem THEN mem[cell] ELSE initialByte(cell)

getUint8(mem, view, offset) == load(mem, cellOf(view, offset))

setUint8(mem, view, offset, value) ==
  [c \in DOMAIN mem \cup {cellOf(view, offset)} |->
     IF c = cellOf(view, offset) THEN value % 256 ELSE mem[c]]

getUint16(mem, view, offset) ==
  getUint8(mem, view, offset) + 256 * getUint8(mem, view, offset + 1)

setUint16(mem, view, offset, value) ==
  setUint8(setUint8(mem, view, offset, value % 256),
           view, offset + 1, (value \div 256) % 256)

Mapped(view, offset, mode) ==
  [err |-> "none", view |-> view, offset |-> offset, mode |-> mode]

Thrown(kind) ==
  [err |-> kind, view |-> View("none", 0, 0), offset |-> 0, mode |-> ReadOnly]

\* map with the echo range backed by a buffer of its own instead of
\* being translated to working RAM
map_echoOwnBuffer(addr) ==
  IF addr >= 0 /\ addr <= 16383 THEN Mapped(workRom0, addr, ReadOnly)
  ELSE IF addr >= 16384 /\ addr <= 32767 THEN Mapped(workRom1, addr - 16384, ReadOnly)
  ELSE IF addr >= 32768 /\ addr <= 36863 THEN Mapped(tiles0, addr - 32768, Writable)
  ELSE IF addr >= 36864 /\ addr <= 38911 THEN Mapped(tiles1, addr - 36864, Writable)
  ELSE IF addr >= 38912 /\ addr <= 39935 THEN Mapped(tileMap0, addr - 38912, Writable)
  ELSE IF addr >= 39936 /\ addr <= 40959 THEN Mapped(tileMap1, addr - 39936, Writable)
  ELSE IF addr >= 40960 /\ addr <= 49151 THEN Mapped(externalRam, addr - 40960, Writable)
  ELSE IF addr >= 49152 /\ addr <= 53247 THEN Mapped(workRam0, addr - 49152, Writable)
  ELSE IF addr >= 53248 /\ addr <= 57343 THEN Mapped(workRam1, addr - 53248, Writable)
  ELSE IF addr >= 57344 /\ addr <= 65023
    THEN Mapped(View("echo", 0, 65024 - 57344), addr - 57344, Writable)
  ELSE IF addr >= 65024 /\ addr <= 65183
    THEN Mapped(spriteAttributeTable, addr - 65024, Writable)
  ELSE IF addr >= 65184 /\ addr <= 65279 THEN Thrown("not usable")
  ELSE IF addr >= 65280 /\ addr <= 65407 THEN Thrown("I/O")
  ELSE IF addr >= 65408 /\ addr <= 65534 THEN Thrown("HRAM")
  ELSE IF addr = 65535 THEN Thrown("Interrupt Enable Register")
  ELSE Thrown("un-mappable")

RECURSIVE map(_)
map(addr) ==
  IF addr >= 0 /\ addr <= 16383 THEN Mapped(workRom0, addr, ReadOnly)
  ELSE IF addr >= 16384 /\ addr <= 32767 THEN Mapped(workRom1, addr - 16384, ReadOnly)
  ELSE IF addr >= 32768 /\ addr <= 36863 THEN Mapped(tiles0, addr - 32768, Writable)
  ELSE IF addr >= 36864 /\ addr <= 38911 THEN Mapped(tiles1, addr - 36864, Writable)
  ELSE IF addr >= 38912 /\ addr <= 39935 THEN Mapped(tileMap0, addr - 38912, Writable)
  ELSE IF addr >= 39936 /\ addr <= 40959 THEN Mapped(tileMap1, addr - 39936, Writable)
  ELSE IF addr >= 40960 /\ addr <= 49151 THEN Mapped(externalRam, addr - 40960, Writable)
  ELSE IF addr >= 49152 /\ addr <= 53247 THEN Mapped(workRam0, addr - 49152, Writable)
  ELSE IF addr >= 53248 /\ addr <= 57343 THEN Mapped(workRam1, addr - 53248, Writable)
  ELSE IF addr >= 57344 /\ addr <= 65023 THEN map(addr - 8192)
  ELSE IF addr >= 65024 /\ addr <= 65183
    THEN Mapped(spriteAttributeTable, addr - 65024, Writable)
  ELSE IF addr >= 65184 /\ addr <= 65279 THEN Thrown("not usable")
  ELSE IF addr >= 65280 /\ addr <= 65407 THEN Thrown("I/O")
  ELSE IF addr >= 65408 /\ addr <= 65534 THEN Thrown("HRAM")
  ELSE IF addr = 65535 THEN Thrown("Interrupt Enable Register")
  ELSE Thrown("un-mappable")

\* what a read returns: the condition it raised, or the value
ReadResult(err, value) == [err |-> err, value |-> value]
\* what a write leaves: the condition it raised, and the storage afterwards
WriteResult(err, mem) == [err |-> err, mem |-> mem]

readUint8(mem, addr) ==
  LET m == map(addr) IN
  IF m.err # "none" THEN ReadResult(m.err, 0)
  ELSE ReadResult("none", getUint8(mem, m.view, m.offset))

\* writeUint8 with the permission test inverted
writeUint8_invertedMode(mem, addr, value) ==
  LET m == map(addr) IN
  IF m.err # "none" THEN WriteResult(m.err, mem)
  ELSE IF m.mode = ReadOnly
    THEN WriteResult("none", setUint8(mem, m.view, m.offset, value))
  ELSE WriteResult("none", mem)

\* writeUint8 without the permission test
writeUint8_ignoresMode(mem, addr, value) ==
  LET m == map(addr) IN
  IF m.err # "none" THEN WriteResult(m.err, mem)
  ELSE WriteResult("none", setUint8(mem, m.view, m.offset, value))

writeUint8(mem, addr, value) ==
  LET m == map(addr) IN
  IF m.err # "none" THEN WriteResult(m.err, mem)
  ELSE IF m.mode = Writable
    THEN WriteResult("none", setUint8(mem, m.view, m.offset, value))
  ELSE WriteResult("none", mem)

readUint16LE(mem, addr) ==
  LET m1 == map(addr)
      m2 == map(addr + 1) IN
  IF m1.err # "none" THEN ReadResult(m1.err, 0)
  ELSE IF m2.err # "none" THEN ReadResult(m2.err, 0)
  ELSE IF m1.view = m2.view
    THEN ReadResult("none", getUint16(mem, m1.view, m1.offset))
  ELSE LET low == getUint8(mem, m1.view, m1.offset)
           high == getUint8(mem, m2.view, m2.offset)
       IN ReadResult("none", high * 256 + low)

\* writeUint16LE storing the high byte first (setUint16 without littleEndian)
writeUint16LE_bigEndian(mem, addr, value) ==
  LET m1 == map(addr)
      m2 == map(addr + 1) IN
  IF m1.err # "none" THEN WriteResult(m1.err, mem)
  ELSE IF m2.err # "none" THEN WriteResult(m2.err, mem)
  ELSE IF m1.view = m2.view
    THEN IF m1.mode = Writable
           THEN WriteResult("none",
                  setUint8(setUint8(mem, m1.view, m1.offset, (value \div 256) % 256),
                           m1.view, m1.offset + 1, value % 256))
           ELSE WriteResult("none", mem)
  ELSE LET low == value % 256
           high == (value \div 256) % 256
           mem1 == IF m1.mode = Writable
                     THEN setUint8(mem, m1.view, m1.offset, low) ELSE mem
           mem2 == IF m2.mode = Writable
                     THEN setUint8(mem1, m2.view, m2.offset, high) ELSE mem1
       IN WriteResult("none", mem2)

\* writeUint16LE as an all-or-nothing store: both bytes or none
writeUint16LE_atomic(mem, addr, value) ==
  LET m1 == map(addr)
      m2 == map(addr + 1) IN
  IF m1.err # "none" THEN WriteResult(m1.err, mem)
  ELSE IF m2.err # "none" THEN WriteResult(m2.err, mem)
  ELSE IF m1.mode = Writable /\ m2.mode = Writable
    THEN WriteResult("none",
           setUint8(setUint8(mem, m1.view, m1.offset, value % 256),
                    m2.view, m2.offset, (value \div 256) % 256))
  ELSE WriteResult("none", mem)

\* writeUint16LE resolving addr + 1 only after the low byte is stored
writeUint16LE_lazyMap(mem, addr, value) ==
  LET m1 == map(addr)
      m2 == map(addr + 1)
      low == value % 256
      high == (value \div 256) % 256
      mem1 == IF m1.err = "none" /\ m1.mode = Writable
                THEN setUint8(mem, m1.view, m1.offset, low) ELSE mem
      mem2 == IF m2.err = "none" /\ m2.mode = Writable
                THEN setUint8(mem1, m2.view, m2.offset, high) ELSE mem1 IN
  IF m1.err # "none" THEN WriteResult(m1.err, mem)
  ELSE IF m2.err # "none" THEN WriteResult(m2.err, mem1)
  ELSE WriteResult("none", mem2)

writeUint16LE(mem, addr, value) ==
  LET m1 == map(addr)
      m2 == map(addr + 1) IN
  IF m1.err # "none" THEN WriteResult(m1.err, mem)
  ELSE IF m2.err # "none" THEN WriteResult(m2.err, mem)
  ELSE IF m1.view = m2.view
    THEN IF m1.mode = Writable
           THEN WriteResult("none", setUint16(mem, m1.view, m1.offset, value))
           ELSE WriteResult("none", mem)
  ELSE LET low == value % 256
           high == (value \div 256) % 256
           mem1 == IF m1.mode = Writable
                     THEN setUint8(mem, m1.view, m1.offset, low) ELSE mem
           mem2 == IF m2.mode = Writable
                     THEN setUint8(mem1, m2.view, m2.offset, high) ELSE mem1
       IN WriteResult("none", mem2)

(***************************************************************************)
(* The bus as a state machine: one action per public method.               *)
(***************************************************************************)
Call(op, addr, value, err, result) ==
  [op |-> op, addr |-> addr, value |-> value, err |-> err, result |-> result]

EmptyStore == [c \in {} |-> 0]

ReadUint8(addr) ==
  /\ nops < MaxOps
  /\ LET r == readUint8(store, addr) IN
       last' = Call("readUint8", addr, 0, r.err, r.value)
  /\ nops' = nops + 1
  /\ UNCHANGED <<rom, store, regs, lastReg>>

WriteUint8(addr, value) ==
  /\ nops < MaxOps
  /\ LET r == writeUint8(store, addr, value) IN
       /\ store' = r.mem
       /\ last' = Call("writeUint8", addr, value, r.err, 0)
  /\ nops' = nops + 1
  /\ UNCHANGED <<rom, regs, lastReg>>

ReadUint16LE(addr) ==
  /\ nops < MaxOps
  /\ LET r == readUint16LE(store, addr) IN
       last' = Call("readUint16LE", addr, 0, r.err, r.value)
  /\ nops' = nops + 1
  /\ UNCHANGED <<rom, store, regs, lastReg>>

WriteUint16LE(addr, value) ==
  /\ nops < MaxOps
  /\ LET r == writeUint16LE(store, addr, value) IN
       /\ store' = r.mem
       /\ last' = Call("writeUint16LE", addr, value, r.err, 0)
  /\ nops' = nops + 1
  /\ UNCHANGED <<rom, regs, lastReg>>

(***************************************************************************)
(* SharpLR35902: flag masks, register pairs and their accessors.           *)
(***************************************************************************)
\* x & y and x | y on non-negative integers
RECURSIVE BitAnd(_, _)
BitAnd(x, y) ==
  IF x = 0 \/ y = 0 THEN 0
  ELSE (IF x % 2 = 1 /\ y % 2 = 1 THEN 1 ELSE 0) + 2 * BitAnd(x \div 2, y \div 2)

RECURSIVE BitOr(_, _)
BitOr(x, y) ==
  IF x = 0 THEN y
  ELSE IF y = 0 THEN x
  ELSE (IF x % 2 = 1 \/ y % 2 = 1 THEN 1 ELSE 0) + 2 * BitOr(x \div 2, y \div 2)

\* ~mask & 0xff, for a mask in 0..255
NotMask(mask) == 255 - mask

ZERO == 64
SUBTRACT == 32
HALF_CARRY == 16
CARRY == 8

get_f(af) == BitAnd(af, 255)
\* set f overwriting the whole pair
set_f_wholePair(af, value) == value

set_f(af, value) == BitOr(value, BitAnd(af, 65280))

get_a(af) == BitAnd(af, 65280)
set_a(af, value) == BitOr(value * 256, BitAnd(af, 255))

get_zero(af) == BitAnd(get_f(af), ZERO) > 0
set_zero(af, value) ==
  IF value THEN set_f(af, BitOr(get_f(af), ZERO))
  ELSE set_f(af, BitAnd(get_f(af), NotMask(ZERO)))

get_subtract(af) == BitAnd(get_f(af), ZERO) > 0
set_subtract(af, value) ==
  IF value THEN set_f(af, BitOr(get_f(af), SUBTRACT))
  ELSE set_f(af, BitAnd(get_f(af), NotMask(SUBTRACT)))

get_halfCarry(af) == BitAnd(get_f(af), HALF_CARRY) > 0
set_halfCarry(af, value) ==
  IF value THEN set_f(af, BitOr(get_f(af), HALF_CARRY))
  ELSE set_f(af, BitAnd(get_f(af), NotMask(HALF_CARRY)))

get_carry(af) == BitAnd(get_f(af), CARRY) > 0
set_carry(af, value) ==
  IF value THEN set_f(af, BitOr(get_f(af), CARRY))
  ELSE set_f(af, BitAnd(get_f(af), NotMask(CARRY)))

get_b(bc) == BitAnd(bc, 65280)
set_b(bc, value) == BitOr(value * 256, BitAnd(bc, 255))

get_c(bc) == BitAnd(bc, 255)
set_c(bc, value) == BitOr(value, BitAnd(bc, 65280))

get_d(de) == BitAnd(de, 65280)
set_d(de, value) == BitOr(value * 256, BitAnd(de, 255))

get_e(de) == BitAnd(de, 255)
set_e(de, value) == BitOr(value, BitAnd(de, 65280))

get_h(hl) == BitAnd(hl, 65280)
set_h(hl, value) == BitOr(value * 256, BitAnd(hl, 255))

get_l(hl) == BitAnd(hl, 255)
set_l(hl, value) == BitOr(value, BitAnd(hl, 65280))

\* the fields af, bc, de, hl, sp, pc of a new SharpLR35902
InitRegs == [af |-> 0, bc |-> 0, de |-> 0, hl |-> 0, sp |-> 0, pc |-> 0]

RegCall(op, reg, num, flag, before) ==
  [op |-> op, reg |-> reg, num |-> num, flag |-> flag, before |-> before]

Pairs == {"af", "bc", "de", "hl"}

\* cpu.af = value (and bc, de, hl): the pairs are plain public fields
AssignPair(pair, value) ==
  /\ regs' = [regs EXCEPT ![pair] = value]
  /\ lastReg' = RegCall("assign", pair, value, FALSE, regs[pair])
  /\ UNCHANGED <<rom, store, last, nops>>

\* cpu.a = value
SetA(value) ==
  /\ regs' = [regs EXCEPT !.af = set_a(regs.af, value)]
  /\ lastReg' = RegCall("set a", "af", value, FALSE, regs.af)
  /\ UNCHANGED <<rom, store, last, nops>>

\* cpu.f = value
SetF(value) ==
  /\ regs' = [regs EXCEPT !.af = set_f(regs.af, value)]
  /\ lastReg' = RegCall("set f", "af", value, FALSE, regs.af)
  /\ UNCHANGED <<rom, store, last, nops>>

\* cpu.b = value
SetB(value) ==
  /\ regs' = [regs EXCEPT !.bc = set_b(regs.bc, value)]
  /\ lastReg' = RegCall("set b", "bc", value, FALSE, regs.bc)
  /\ UNCHANGED <<rom, store, last, nops>>

\* cpu.c = value
SetC(value) ==
  /\ regs' = [regs EXCEPT !.bc = set_c(regs.bc, value)]
  /\ lastReg' = RegCall("set c", "bc", value, FALSE, regs.bc)
  /\ UNCHANGED <<rom, store, last, nops>>

\* cpu.d = value
SetD(value) ==
  /\ regs' = [regs EXCEPT !.de = set_d(regs.de, value)]
  /\ lastReg' = RegCall("set d", "de", value, FALSE, regs.de)
  /\ UNCHANGED <<rom, store, last, nops>>

\* cpu.e = value
SetE(value) ==
  /\ regs' = [regs EXCEPT !.de = set_e(regs.de, value)]
  /\ lastReg' = RegCall("set e", "de", value, FALSE, regs.de)
  /\ UNCHANGED <<rom, store, last, nops>>

\* cpu.h = value
SetH(value) ==
  /\ regs' = [regs EXCEPT !.hl = set_h(regs.hl, value)]
  /\ lastReg' = RegCall("set h", "hl", value, FALSE, regs.hl)
  /\ UNCHANGED <<rom, store, last, nops>>

\* cpu.l = value
SetL(value) ==
  /\ regs' = [regs EXCEPT !.hl = set_l(regs.hl, value)]
  /\ lastReg' = RegCall("set l", "hl", value, FALSE, regs.hl)
  /\ UNCHANGED <<rom, store, last, nops>>

\* cpu.zero = value
SetZero(value) ==
  /\ regs' = [regs EXCEPT !.af = set_zero(regs.af, value)]
  /\ lastReg' = RegCall("set zero", "af", 0, value, regs.af)
  /\ UNCHANGED <<rom, store, last, nops>>

\* cpu.subtract = value
SetSubtract(value) ==
  /\ regs' = [regs EXCEPT !.af = set_subtract(regs.af, value)]
  /\ lastReg' = RegCall("set subtract", "af", 0, value, regs.af)
  /\ UNCHANGED <<rom, store, last, nops>>

\* cpu.halfCarry = value
SetHalfCarry(value) ==
  /\ regs' = [regs EXCEPT !.af = set_halfCarry(regs.af, value)]
  /\ lastReg' = RegCall("set halfCarry", "af", 0, value, regs.af)
  /\ UNCHANGED <<rom, store, last, nops>>

\* cpu.carry = value
SetCarry(value) ==
  /\ regs' = [regs EXCEPT !.af = set_carry(regs.af, value)]
  /\ lastReg' = RegCall("set carry", "af", 0, value, regs.af)
  /\ UNCHANGED <<rom, store, last, nops>>

Init ==
  /\ rom \in 0..MaxRomSeed
  /\ store = EmptyStore
  /\ last = Call("constructor", 0, 0, "none", 0)
  /\ nops = 0
  /\ regs = InitRegs
  /\ lastReg = RegCall("constructor", "none", 0, FALSE, 0)

Next ==
  \/ \E addr \in AddrSamples : ReadUint8(addr)
  \/ \E addr \in AddrSamples, value \in ByteSamples : WriteUint8(addr, value)
  \/ \E addr \in AddrSamples : ReadUint16LE(addr)
  \/ \E addr \in AddrSamples, value \in WordSamples : WriteUint16LE(addr, value)

\* the memory bus, driven by any caller
Spec == Init /\ [][Next]_vars

\* a SharpLR35902 over the bus of an all-zero cartridge
InitCpu == Init /\ rom = 0

NextRegisters ==
  \/ \E pair \in Pairs, value \in RegWordSamples : AssignPair(pair, value)
  \/ \E value \in HalfByteSamples : SetA(value)
  \/ \E value \in HalfByteSamples : SetF(value)
  \/ \E value \in HalfByteSamples : SetB(value)
  \/ \E value \in HalfByteSamples : SetC(value)
  \/ \E value \in HalfByteSamples : SetD(value)
  \/ \E value \in HalfByteSamples : SetE(value)
  \/ \E value \in HalfByteSamples : SetH(value)
  \/ \E value \in HalfByteSamples : SetL(value)

\* the register pairs and their eight halves, assigned by any caller
SpecRegisters == InitCpu /\ [][NextRegisters]_vars

NextFlags ==
  \/ \E value \in RegByteSamples : SetA(value)
  \/ \E value \in RegByteSamples : SetF(value)
  \/ \E value \in BOOLEAN : SetZero(value)
  \/ \E value \in BOOLEAN : SetSubtract(value)
  \/ \E value \in BOOLEAN : SetHalfCarry(value)
  \/ \E value \in BOOLEAN : SetCarry(value)

\* the accumulator, the flags register and the four flag accessors
SpecFlags == InitCpu /\ [][NextFlags]_vars

NextFlagWrites ==
  \/ \E value \in RegByteSamples : SetA(value)
  \/ \E value \in BOOLEAN : SetZero(value)
  \/ \E value \in BOOLEAN : SetSubtract(value)
  \/ \E value \in BOOLEAN : SetHalfCarry(value)
  \/ \E value \in BOOLEAN : SetCarry(value)

\* F written through the four flag accessors only, from AF = 0
SpecFlagWrites == InitCpu /\ [][NextFlagWrites]_vars

(***************************************************************************)
(* Properties of the memory bus (checked under Spec).                      *)
(***************************************************************************)
IsWrite8 == last.op = "writeUint8"
IsWrite16 == last.op = "writeUint16LE"

RomRange == 0..32767
EchoRange == 57344..65023
WritableRange == (32768..57343) \cup EchoRange \cup (65024..65183)
UnwiredRange == 65184..65535

\* the rows of the address map: first address, last address
AddressMap ==
  << <<0, 16383>>, <<16384, 32767>>, <<32768, 36863>>, <<36864, 38911>>,
     <<38912, 39935>>, <<39936, 40959>>, <<40960, 49151>>, <<49152, 53247>>,
     <<53248, 57343>>, <<57344, 65023>>, <<65024, 65183>>, <<65184, 65279>>,
     <<65280, 65407>>, <<65408, 65534>>, <<65535, 65535>> >>

SameRegion(a, b) ==
  \E i \in DOMAIN AddressMap :
    /\ AddressMap[i][1] <= a /\ a <= AddressMap[i][2]
    /\ AddressMap[i][1] <= b /\ b <= AddressMap[i][2]

\* C1: a byte written to a writable address (video RAM .. working RAM, the
\* echo range, the object table) is the byte read back from that address,
\* whatever was done to the bus before.
C1_WriteReadRoundTrip ==
  (IsWrite8 /\ last.addr \in WritableRange) =>
    /\ last.err = "none"
    /\ readUint8(store, last.addr) = ReadResult("none", last.value)

\* a byte written through the echo range onto memory an earlier call dirtied
C1_Witness ==
  /\ IsWrite8 /\ last.addr = 57344 /\ last.value = 255
  /\ nops = MaxOps
  /\ readUint8(store, 57344).value = 255
  /\ readUint8(store, 49153).value # 0

\* C2: no sequence of 8-bit and 16-bit writes changes a byte of the ROM
\* range 0x0000-0x7FFF, and a write aimed at the ROM range completes without
\* raising anything.
C2_RomNeverMutated ==
  /\ \A c \in DOMAIN store : c[1] = "rom" => store[c] = romData(rom, c[2])
  /\ \A a \in AddrSamples \cup {b + 1 : b \in AddrSamples} :
       a \in RomRange => readUint8(store, a) = readUint8(EmptyStore, a)
  /\ ((IsWrite8 \/ IsWrite16) /\ last.addr \in RomRange) => last.err = "none"

\* a 16-bit write at 0x7FFE over a cartridge whose bytes there are not zero
C2_Witness ==
  /\ IsWrite16 /\ last.addr = 32766 /\ last.value = 48879
  /\ last.err = "none"
  /\ readUint8(EmptyStore, 32766).value # 0
  /\ readUint8(EmptyStore, 32767).value # 0

\* C3: a 16-bit write whose two bytes fall in one writable region stores the
\* low byte at a and the high byte at a + 1, and the 16-bit read at a returns
\* the value written.
C3_LittleEndianRoundTrip ==
  (/\ IsWrite16
   /\ last.addr \in WritableRange /\ last.addr + 1 \in WritableRange
   /\ SameRegion(last.addr, last.addr + 1)) =>
    /\ last.err = "none"
    /\ readUint8(store, last.addr) = ReadResult("none", last.value % 256)
    /\ readUint8(store, last.addr + 1) = ReadResult("none", last.value \div 256)
    /\ readUint16LE(store, last.addr) = ReadResult("none", last.value)

\* 0xBEEF written at 0xC000 reads back as 0xEF, 0xBE
C3_Witness ==
  /\ IsWrite16 /\ last.addr = 49152 /\ last.value = 48879
  /\ readUint8(store, 49152).value = 239
  /\ readUint8(store, 49153).value = 190

\* C4: a 16-bit write at 0x7FFF leaves the ROM byte at 0x7FFF as it was and
\* stores the high byte at 0x8000, so the 16-bit read at 0x7FFF returns
\* high * 256 + the ROM byte (0xBE00 for 0xBEEF over a zero ROM byte).
C4_BoundaryWriteHalf ==
  (IsWrite16 /\ last.addr = 32767) =>
    /\ last.err = "none"
    /\ readUint8(store, 32767) = ReadResult("none", romData(rom, 32767))
    /\ readUint8(store, 32768) = ReadResult("none", last.value \div 256)
    /\ readUint16LE(store, 32767) =
         ReadResult("none", (last.value \div 256) * 256 + romData(rom, 32767))
    /\ (last.value = 48879 /\ romData(rom, 32767) = 0) =>
         readUint16LE(store, 32767).value = 48640

\* 0xBEEF written at 0x7FFF over a zero ROM byte
C4_Witness ==
  /\ IsWrite16 /\ last.addr = 32767 /\ last.value = 48879
  /\ romData(rom, 32767) = 0
  /\ readUint16LE(store, 32767).value = 48640

\* C5: an echo address and the address 0x2000 below it resolve, after one
\* translation that leaves the echo range, to the same byte: they always read
\* the same value, and a byte written through either is read through the other.
C5_EchoEquivalence ==
  /\ \A a \in AddrSamples \cup {b + 8192 : b \in AddrSamples} :
       a \in EchoRange =>
         /\ a - 8192 \notin EchoRange
         /\ map(a) = map(a - 8192)
         /\ map(a).err = "none"
         /\ readUint8(store, a) = readUint8(store, a - 8192)
  /\ (IsWrite8 /\ last.addr \in EchoRange) =>
       readUint8(store, last.addr - 8192) = ReadResult("none", last.value)
  /\ (IsWrite8 /\ last.addr + 8192 \in EchoRange) =>
       readUint8(store, last.addr + 8192) = ReadResult("none", last.value)

\* a byte written at 0xC000 and seen at 0xE000
C5_Witness ==
  /\ IsWrite8 /\ last.addr = 49152 /\ last.value = 255
  /\ readUint8(store, 57344).value = 255

\* the accesses that raise: the address, or for the 16-bit forms the address
\* after it, is in a region nothing handles yet or outside 0x0000-0xFFFF
Unhandled(a) == a \in UnwiredRange \/ a < 0 \/ a > 65535

Raises(call) ==
  \/ Unhandled(call.addr)
  \/ call.op \in {"readUint16LE", "writeUint16LE"} /\ Unhandled(call.addr + 1)

\* C10: a bus access that raises stores nothing: every access to an unhandled
\* or out-of-range address (or, 16-bit, whose second address is one) raises
\* and leaves every byte as it was.
C10_FailedAccessStoresNothing ==
  [][ Raises(last') => (last'.err # "none" /\ store' = store) ]_vars

\* a 16-bit write at 0xFE9F that raised, over an object-table byte of 0xFF
C10_Witness ==
  /\ IsWrite16 /\ last.addr = 65183 /\ last.err = "not usable"
  /\ readUint8(store, 65183).value = 255

(***************************************************************************)
(* Properties of the register pairs (checked under SpecRegisters).         *)
(***************************************************************************)
HighOf(pair, value) ==
  CASE pair = "af" -> get_a(value)
    [] pair = "bc" -> get_b(value)
    [] pair = "de" -> get_d(value)
    [] pair = "hl" -> get_h(value)

LowOf(pair, value) ==
  CASE pair = "af" -> get_f(value)
    [] pair = "bc" -> get_c(value)
    [] pair = "de" -> get_e(value)
    [] pair = "hl" -> get_l(value)

\* C6: after a pair is set to v its high-half getter returns v >> 8, its
\* low-half getter returns v & 0xFF, and (high << 8) | low is v.
C6_PairHalvesReconstruct ==
  lastReg.op = "assign" =>
    /\ HighOf(lastReg.reg, regs[lastReg.reg]) = lastReg.num \div 256
    /\ LowOf(lastReg.reg, regs[lastReg.reg]) = lastReg.num % 256
    /\ BitOr(HighOf(lastReg.reg, regs[lastReg.reg]) * 256,
             LowOf(lastReg.reg, regs[lastReg.reg])) = lastReg.num

(***************************************************************************)
(* Properties of the flag accessors (checked under SpecFlags).             *)
(***************************************************************************)
FlagSetters == {"set zero", "set subtract", "set halfCarry", "set carry"}

MaskOf(op) ==
  CASE op = "set zero" -> ZERO
    [] op = "set subtract" -> SUBTRACT
    [] op = "set halfCarry" -> HALF_CARRY
    [] op = "set carry" -> CARRY

\* C7: each flag getter returns the value last written through the setter of
\* the same flag, whatever the other three flags hold.
C7_FlagReadsWhatItWrote ==
  /\ lastReg.op = "set zero" => get_zero(regs.af) = lastReg.flag
  /\ lastReg.op = "set subtract" => get_subtract(regs.af) = lastReg.flag
  /\ lastReg.op = "set halfCarry" => get_halfCarry(regs.af) = lastReg.flag
  /\ lastReg.op = "set carry" => get_carry(regs.af) = lastReg.flag

\* C8: a flag setter changes no bit of AF but the one bit of its own flag: the
\* bits of the other three flags and the accumulator half stay as they were.
C8_FlagBitIsolation ==
  lastReg.op \in FlagSetters =>
    /\ BitAnd(regs.af, 65535 - MaskOf(lastReg.op))
         = BitAnd(lastReg.before, 65535 - MaskOf(lastReg.op))
    /\ \A m \in {ZERO, SUBTRACT, HALF_CARRY, CARRY} \ {MaskOf(lastReg.op)} :
         BitAnd(get_f(regs.af), m) = BitAnd(get_f(lastReg.before), m)
    /\ get_a(regs.af) = get_a(lastReg.before)

\* subtract cleared while the other three flags are set and A is not zero
C8_Witness ==
  /\ lastReg.op = "set subtract" /\ lastReg.flag = FALSE
  /\ get_f(lastReg.before) = ZERO + SUBTRACT + HALF_CARRY + CARRY
  /\ get_f(regs.af) = ZERO + HALF_CARRY + CARRY
  /\ get_a(regs.af) = 255 * 256

\* C9 (checked under SpecFlagWrites): the low nibble of F is zero after any
\* sequence of flag writes from AF = 0.
C9_LowNibbleZero == BitAnd(get_f(regs.af), 15) = 0

====
